---------------------------- MODULE Spec2Model ----------------------------
(***************************************************************************)
(* A model of src/Bundle.ts: one call of Bundle.generate(), from the       *)
(* renderStart notification to the returned output bundle, with the manual *)
(* chunk resolution, the chunk construction, the identity assignment and   *)
(* the concurrent render phase it drives.                                  *)
(*                                                                         *)
(* Collaborators whose code lives outside Bundle.ts (Chunk, PluginDriver,  *)
(* getChunkAssignments, the module loader) are modelled at their interface *)
(* and marked as such where they are defined.                              *)
(***************************************************************************)
EXTENDS Integers, Sequences, FiniteSets, TLC

(***************************************************************************)
(* Bounds of the model.                                                    *)
(***************************************************************************)
\* longest graph (id-to-module map) explored by the graph family
MaxModules == 3
\* longest file list of one entry of the static manual-chunk table
MaxFiles == 2

(***************************************************************************)
(* The universe of modules, files and aliases.                             *)
(***************************************************************************)
NoAlias == "-"
NoModule == "none"
Aliases == {"p", "q"}
\* the order of the aliases as strings ("p" < "q")
AliasRank == [al \in Aliases |-> IF al = "p" THEN 1 ELSE 2]

Modules == {"a", "b", "c", "d", "e", "x"}
\* What the graph knows about a module.  internal: an instance of Module (not
\* of ExternalModule); the other flags are those getIncludedModules and
\* assignChunkIds read.
ModInfo ==
  [m \in Modules |->
     CASE m = "a" -> [internal |-> TRUE, isIncluded |-> TRUE, isEntry |-> TRUE,
                      isUserDefinedEntryPoint |-> TRUE, includedDynamicImporters |-> 0]
       [] m = "b" -> [internal |-> TRUE, isIncluded |-> FALSE, isEntry |-> TRUE,
                      isUserDefinedEntryPoint |-> TRUE, includedDynamicImporters |-> 0]
       [] m = "c" -> [internal |-> TRUE, isIncluded |-> TRUE, isEntry |-> FALSE,
                      isUserDefinedEntryPoint |-> FALSE, includedDynamicImporters |-> 0]
       [] m = "d" -> [internal |-> TRUE, isIncluded |-> FALSE, isEntry |-> FALSE,
                      isUserDefinedEntryPoint |-> FALSE, includedDynamicImporters |-> 1]
       [] m = "e" -> [internal |-> TRUE, isIncluded |-> FALSE, isEntry |-> FALSE,
                      isUserDefinedEntryPoint |-> FALSE, includedDynamicImporters |-> 0]
       [] OTHER   -> [internal |-> FALSE, isIncluded |-> FALSE, isEntry |-> FALSE,
                      isUserDefinedEntryPoint |-> FALSE, includedDynamicImporters |-> 0]]

\* the position of a module in the execution order of the graph
ExecIndex ==
  [m \in Modules |->
     CASE m = "c" -> 1 [] m = "d" -> 2 [] m = "a" -> 3
       [] m = "b" -> 4 [] m = "e" -> 5 [] OTHER -> 6]

Files == {"f1", "f2", "f3"}
\* the module a specifier of the static table resolves to; two specifiers may
\* name the same module
ResolveId == [f \in Files |-> CASE f = "f1" -> "a" [] f = "f2" -> "c" [] OTHER -> "a"]

(***************************************************************************)
(* Sequences.                                                              *)
(***************************************************************************)
Range(s) == {s[i] : i \in 1..Len(s)}

SeqsUpTo(S, n) == UNION {[1..k -> S] : k \in 0..n}

IsInjective(s) == \A i, j \in 1..Len(s) : s[i] = s[j] => i = j

InjectiveSeqsUpTo(S, n) == {s \in SeqsUpTo(S, n) : IsInjective(s)}

RECURSIVE FilterSeq(_, _)
FilterSeq(s, keep) ==
  IF s = <<>> THEN <<>>
  ELSE IF Head(s) \in keep THEN <<Head(s)>> \o FilterSeq(Tail(s), keep)
       ELSE FilterSeq(Tail(s), keep)

RECURSIVE FlattenSeq(_)
FlattenSeq(ss) == IF ss = <<>> THEN <<>> ELSE Head(ss) \o FlattenSeq(Tail(ss))

\* the first place of s that holds x, 0 when there is none
IndexOf(s, x) ==
  IF x \in Range(s) THEN CHOOSE i \in 1..Len(s) : s[i] = x /\ \A j \in 1..(i - 1) : s[j] # x
  ELSE 0

\* sortByExecutionOrder: the modules of s by ascending execution index
RECURSIVE InsertByExecIndex(_, _)
InsertByExecIndex(m, s) ==
  IF s = <<>> THEN <<m>>
  ELSE IF ExecIndex[m] < ExecIndex[Head(s)] THEN <<m>> \o s
       ELSE <<Head(s)>> \o InsertByExecIndex(m, Tail(s))

RECURSIVE sortByExecutionOrder(_)
sortByExecutionOrder(s) ==
  IF s = <<>> THEN <<>>
  ELSE InsertByExecIndex(s[Len(s)], sortByExecutionOrder(SubSeq(s, 1, Len(s) - 1)))

(***************************************************************************)
(* The state of one generate() call.                                       *)
(***************************************************************************)
VARIABLES
  outputOptions,            \* the normalized output options (read only)
  manualChunks,             \* outputOptions.manualChunks: a table or a classifier
  chunkOracle,              \* what Chunk and getChunkAssignments answer (read only)
  graph,                    \* graph.modulesById as the constructor received it
  run,                      \* which generate() call on these inputs this is
  firstRun,                 \* what the first generate() call produced
  modulesById,              \* graph.modulesById, in its iteration order
  pc,                       \* the position of generate()
  idx,                      \* the index of the loop generate() is in
  classifierCalls,          \* the module ids getManualChunk was called with
  manualChunkAliasesWithEntry, \* the (alias, module) pairs still to be added
  manualChunkAliasByEntry,  \* Map<Module, string>, in insertion order
  chunkDefinitions,         \* the groups the chunk loop iterates
  chunks,                   \* the chunks built so far, then chunks and facades
  chunkByModule,            \* Map<Module, Chunk> shared by the constructors
  facades,                  \* generateChunks: the facades collected so far
  chunksForNaming,          \* assignChunkIds: entryChunks.concat(otherChunks)
  bundle,                   \* outputBundle and, through it, outputBundleBase
  renderState,              \* per chunk: the state of its render task
  received,                 \* the bundle finaliseAssets was called with
  err,                      \* the failure caught by the guard of generate()
  renderErrorCalls,         \* the failures renderError was notified with
  outcome,                  \* what the caller of generate() gets
  warnings,                 \* what was reported through onwarn
  log                       \* the calls made so far, in order

vars ==
  <<outputOptions, manualChunks, chunkOracle, graph, run, firstRun, modulesById, pc, idx,
    classifierCalls,
    manualChunkAliasesWithEntry, manualChunkAliasByEntry, chunkDefinitions, chunks,
    chunkByModule, facades, chunksForNaming, bundle, renderState, received, err,
    renderErrorCalls, outcome, warnings, log>>

\* what a generate() call leaves as it is
inputVars == <<outputOptions, manualChunks, chunkOracle, graph, run, firstRun>>
manualVars == <<classifierCalls, manualChunkAliasesWithEntry, manualChunkAliasByEntry>>
chunkVars == <<chunkDefinitions, chunks, chunkByModule, facades>>
renderVars == <<chunksForNaming, bundle, renderState, received, renderErrorCalls>>

(***************************************************************************)
(* Failures.  A failure value is a record; id, alias and existingAlias     *)
(* are the arguments of errCannotAssignModuleToChunk, and id holds the     *)
(* option's name for errInvalidOption.                                     *)
(***************************************************************************)
Failure(kind, id, alias, existingAlias) ==
  [kind |-> kind, id |-> id, alias |-> alias, existingAlias |-> existingAlias]

NoFailure == Failure("none", NoModule, NoAlias, NoAlias)

errCannotAssignModuleToChunk(id, alias, existingAlias) ==
  Failure("CANNOT_ASSIGN_MODULE_TO_CHUNK", id, alias, existingAlias)

errInvalidOption(option) == Failure("INVALID_OPTION", option, NoAlias, NoAlias)

\* a failure raised inside a collaborator (a hook, the loader, a Chunk method)
ExternalFailure(where) == Failure(where, NoModule, NoAlias, NoAlias)

(***************************************************************************)
(* Map<Module, string> as a sequence of <<module, alias>> entries in       *)
(* insertion order, one entry per key.                                     *)
(***************************************************************************)
MapKeys(map) == {map[i][1] : i \in 1..Len(map)}

MapGet(map, module) ==
  IF module \in MapKeys(map)
  THEN LET i == CHOOSE k \in 1..Len(map) : map[k][1] = module IN map[i][2]
  ELSE NoAlias

\* Map.set: a key the map holds keeps its place and gets the new value
MapSet(map, module, value) ==
  IF module \in MapKeys(map)
  THEN [i \in 1..Len(map) |-> IF map[i][1] = module THEN <<module, value>> ELSE map[i]]
  ELSE Append(map, <<module, value>>)

(***************************************************************************)
(* The functions of Bundle.ts outside the class.                           *)
(***************************************************************************)
\* addModuleToManualChunk: the failure it raises, or the map after the call
addModuleToManualChunk(alias, module, map) ==
  LET existingAlias == MapGet(map, module) IN
  IF existingAlias # NoAlias /\ existingAlias # alias
  THEN [failure |-> errCannotAssignModuleToChunk(module, alias, existingAlias),
        map |-> map]
  ELSE [failure |-> NoFailure, map |-> MapSet(map, module, alias)]

IsIncludedModule(m) ==
  /\ ModInfo[m].internal
  /\ \/ ModInfo[m].isIncluded
     \/ ModInfo[m].isEntry
     \/ ModInfo[m].includedDynamicImporters > 0

getIncludedModules(byId) == FilterSeq(byId, {m \in Modules : IsIncludedModule(m)})

Undefined == "undefined"

\* an option check that forgets output.sourcemapFile
validateOptionsWithoutSourcemapFile(options) ==
  IF options.format = "umd" \/ options.format = "iife"
  THEN [failure |-> errInvalidOption("output.format"), warned |-> FALSE]
  ELSE IF options.file # Undefined
  THEN [failure |-> errInvalidOption("output.file"), warned |-> FALSE]
  ELSE [failure |-> NoFailure,
        warned |-> (~options.amd.autoId /\ options.amd.id # Undefined)]

\* validateOptionsForMultiChunkOutput: the failure it raises and whether it warns
validateOptionsForMultiChunkOutput(options) ==
  IF options.format = "umd" \/ options.format = "iife"
  THEN [failure |-> errInvalidOption("output.format"), warned |-> FALSE]
  ELSE IF options.file # Undefined
  THEN [failure |-> errInvalidOption("output.file"), warned |-> FALSE]
  ELSE IF options.sourcemapFile # Undefined
  THEN [failure |-> errInvalidOption("output.sourcemapFile"), warned |-> FALSE]
  ELSE [failure |-> NoFailure,
        warned |-> (~options.amd.autoId /\ options.amd.id # Undefined)]

\* basename of the one output file name the model uses
basename(file) == IF file = "dist/out.js" THEN "out.js" ELSE file

(***************************************************************************)
(* The collaborators, at their interface.                                  *)
(***************************************************************************)
RECURSIVE Dedupe(_)
Dedupe(s) ==
  IF s = <<>> THEN <<>>
  ELSE LET init == Dedupe(SubSeq(s, 1, Len(s) - 1)) IN
       IF s[Len(s)] \in Range(init) THEN init ELSE Append(init, s[Len(s)])

\* getChunkAssignments: the groups of the automatic mode.  Every included
\* module is in exactly one group; the modules of one manual alias form one
\* group, in the order the aliases entered the map; the others are grouped by
\* the signature the oracle gives them, in the order the signatures appear.
getChunkAssignments(byId, aliasByEntry, sig) ==
  LET included == getIncludedModules(byId)
      aliased == FilterSeq(included, MapKeys(aliasByEntry))
      others == FilterSeq(included, Modules \ MapKeys(aliasByEntry))
      aliasesUsed == Dedupe([i \in 1..Len(aliasByEntry) |-> aliasByEntry[i][2]])
      sigsUsed == Dedupe([i \in 1..Len(others) |-> sig[others[i]]])
      manual == [i \in 1..Len(aliasesUsed) |->
                   [alias |-> aliasesUsed[i],
                    modules |-> FilterSeq(aliased,
                       {m \in Modules : MapGet(aliasByEntry, m) = aliasesUsed[i]})]]
      automatic == [i \in 1..Len(sigsUsed) |->
                   [alias |-> NoAlias,
                    modules |-> FilterSeq(others,
                       {m \in Modules : sig[m] = sigsUsed[i]})]]
  IN FilterSeq(manual, {g \in Range(manual) : g.modules # <<>>}) \o automatic

NoId == <<"none", 0>>

\* a Chunk as its constructor leaves it
NewChunk(modules, alias) ==
  [modules |-> modules, alias |-> alias, facadeModule |-> NoModule,
   facadeOf |-> 0, id |-> NoId]

\* the modules of a chunk that generateFacades looks at
IsEntryLike(m, options) ==
  \/ ModInfo[m].isEntry
  \/ ModInfo[m].includedDynamicImporters > 0
  \/ options.preserveModules

\* Chunk.generateFacades on chunks[k]: the chunk takes the first entry module
\* that needs no chunk of its own as its facade module; every entry module the
\* oracle names gets a facade chunk.
OwnFacadeModule(chunk, options, oracle) ==
  LET own == FilterSeq(chunk.modules,
                 {m \in Modules : IsEntryLike(m, options) /\ m \notin oracle.facadeModules})
  IN IF own = <<>> THEN NoModule ELSE own[1]

generateFacades(chunk, k, options, oracle) ==
  LET need == FilterSeq(chunk.modules,
                 {m \in Modules : IsEntryLike(m, options) /\ m \in oracle.facadeModules})
  IN [i \in 1..Len(need) |->
        [modules |-> <<>>, alias |-> NoAlias, facadeModule |-> need[i],
         facadeOf |-> k, id |-> NoId]]

\* the name a chunk asks for
ChunkName(chunk, oracle) ==
  IF oracle.fileNames = "fixed" THEN "chunk"
  ELSE IF chunk.alias # NoAlias THEN chunk.alias
  ELSE IF chunk.facadeModule # NoModule THEN chunk.facadeModule
  ELSE IF chunk.modules # <<>> THEN chunk.modules[Len(chunk.modules)]
  ELSE "chunk"

\* makeUnique: the name itself, or the name with the first free number
makeUnique(name, existingNames) ==
  LET free == {n \in 0..Cardinality(existingNames) : <<name, n>> \notin existingNames}
  IN <<name, CHOOSE n \in free : \A o \in free : n <= o>>

\* Chunk.generateId and Chunk.generateIdPreserveModules
generateId(chunk, oracle, existingNames) ==
  makeUnique(ChunkName(chunk, oracle), existingNames)

generateIdPreserveModules(chunk, existingNames) ==
  makeUnique(IF chunk.modules # <<>> THEN chunk.modules[1] ELSE chunk.facadeModule,
             existingNames)

(***************************************************************************)
(* The output bundle: its entries in insertion order, one per file name.   *)
(***************************************************************************)
NoType == ""
FILE_PLACEHOLDER == [type |-> "placeholder", chunk |-> 0, code |-> "none"]

BundleKeys(b) == {b[i].fileName : i \in 1..Len(b)}

BundleGet(b, fileName) ==
  LET i == CHOOSE k \in 1..Len(b) : b[k].fileName = fileName IN b[i]

\* bundle[fileName] = value
BundleSet(b, fileName, value) ==
  LET entry == [fileName |-> fileName, type |-> value.type, chunk |-> value.chunk,
                code |-> value.code]
  IN IF fileName \in BundleKeys(b)
     THEN [i \in 1..Len(b) |-> IF b[i].fileName = fileName THEN entry ELSE b[i]]
     ELSE Append(b, entry)

\* delete bundle[fileName]
BundleDelete(b, fileName) ==
  FilterSeq(b, {e \in Range(b) : e.fileName # fileName})

\* Chunk.getChunkInfoWithFileNames of chunks[k]
ChunkInfo(k) == [type |-> "chunk", chunk |-> k, code |-> "none"]

(***************************************************************************)
(* The inputs of a run.                                                    *)
(***************************************************************************)
DefaultOptions ==
  [format |-> "es", file |-> Undefined, sourcemapFile |-> Undefined,
   preserveModules |-> FALSE, inlineDynamicImports |-> FALSE,
   amd |-> [autoId |-> FALSE, id |-> Undefined], validate |-> FALSE]

\* the three partition modes; the normalized options never set both flags
Modes ==
  {[preserveModules |-> FALSE, inlineDynamicImports |-> FALSE],
   [preserveModules |-> TRUE, inlineDynamicImports |-> FALSE],
   [preserveModules |-> FALSE, inlineDynamicImports |-> TRUE]}

WithMode(options, mode) ==
  [options EXCEPT !.preserveModules = mode.preserveModules,
                  !.inlineDynamicImports = mode.inlineDynamicImports]

\* the signatures getChunkAssignments may see: one chunk for all, the entry
\* "a" apart, every module apart
Signatures ==
  {[m \in Modules |-> 1],
   [m \in Modules |-> IF m = "a" THEN 1 ELSE 2],
   [m \in Modules |-> ExecIndex[m]]}

DefaultOracle ==
  [sig |-> [m \in Modules |-> 1], facadeModules |-> {}, fileNames |-> "name",
   invalidCode |-> FALSE]

DefaultGraph == <<"c", "a", "x", "b">>

NoClassifier == [m \in Modules |-> NoAlias]

ClassifierInput(f) == [type |-> "function", table |-> <<>>, getManualChunk |-> f]

TableInput(t) == [type |-> "object", table |-> t, getManualChunk |-> NoClassifier]

\* the static tables: an object has one entry per alias
FileLists == SeqsUpTo(Files, MaxFiles)

Tables ==
  {t \in SeqsUpTo([alias : Aliases, files : FileLists], Cardinality(Aliases)) :
     \A i, j \in 1..Len(t) : t[i].alias = t[j].alias => i = j}

\* the classifiers: an alias or nothing for each internal module of the
\* default graph
Classifiers ==
  {f \in [Modules -> Aliases \cup {NoAlias}] :
     \A m \in Modules : m \notin {"a", "b", "c"} => f[m] = NoAlias}

(***************************************************************************)
(* The initial states: generate() has just been called.  Each family varies*)
(* some inputs and keeps the others at their defaults.                     *)
(***************************************************************************)
\* no generate() call on these inputs has ended yet
NoRun == [grouping |-> <<>>, naming |-> <<>>, ids |-> <<>>]

Started(options, manual, oracle, byId) ==
  /\ outputOptions = options
  /\ manualChunks = manual
  /\ chunkOracle = oracle
  /\ graph = byId
  /\ run = 1
  /\ firstRun = NoRun
  /\ modulesById = byId
  /\ pc = "renderStart"
  /\ idx = 1
  /\ classifierCalls = <<>>
  /\ manualChunkAliasesWithEntry = <<>>
  /\ manualChunkAliasByEntry = <<>>
  /\ chunkDefinitions = <<>>
  /\ chunks = <<>>
  /\ chunkByModule = <<>>
  /\ facades = <<>>
  /\ chunksForNaming = <<>>
  /\ bundle = <<>>
  /\ renderState = <<>>
  /\ received = <<>>
  /\ err = NoFailure
  /\ renderErrorCalls = <<>>
  /\ outcome = [status |-> "pending", failure |-> NoFailure, bundle |-> <<>>]
  /\ warnings = <<>>
  /\ log = <<>>

\* the partition, the facades and the naming pattern vary
InitPipeline ==
  \E mode \in Modes, sig \in Signatures, fm \in SUBSET {"a", "b"},
     names \in {"name", "fixed"} :
    Started(WithMode(DefaultOptions, mode), ClassifierInput(NoClassifier),
            [DefaultOracle EXCEPT !.sig = sig, !.facadeModules = fm, !.fileNames = names],
            DefaultGraph)

\* the options validateOptionsForMultiChunkOutput reads vary
InitOptions ==
  \E format \in {"es", "iife", "umd"}, file \in {Undefined, "dist/out.js"},
     sourcemapFile \in {Undefined, "out.js.map"},
     amd \in {[autoId |-> FALSE, id |-> Undefined], [autoId |-> FALSE, id |-> "lib"],
              [autoId |-> TRUE, id |-> "lib"]},
     sig \in {[m \in Modules |-> 1], [m \in Modules |-> ExecIndex[m]]},
     fm \in {{}, {"a"}} :
    Started([DefaultOptions EXCEPT !.format = format, !.file = file,
                                   !.sourcemapFile = sourcemapFile, !.amd = amd],
            ClassifierInput(NoClassifier),
            [DefaultOracle EXCEPT !.sig = sig, !.facadeModules = fm],
            DefaultGraph)

\* the graph varies
InitGraph ==
  \E byId \in InjectiveSeqsUpTo(Modules, MaxModules), mode \in Modes :
    Started(WithMode(DefaultOptions, mode), ClassifierInput(NoClassifier),
            [DefaultOracle EXCEPT !.sig = [m \in Modules |-> ExecIndex[m]]], byId)

\* a graph with the dynamic entry "d": the facades vary
InitDynamicEntry ==
  \E sig \in Signatures, fm \in SUBSET {"a", "d"} :
    Started(DefaultOptions, ClassifierInput(NoClassifier),
            [DefaultOracle EXCEPT !.sig = sig, !.facadeModules = fm],
            <<"c", "d", "a">>)

\* the static manual-chunk table varies
InitTable ==
  \E t \in Tables :
    Started(DefaultOptions, TableInput(t), DefaultOracle, DefaultGraph)

\* the manual-chunk classifier varies
InitClassifier ==
  \E f \in Classifiers, mode \in Modes :
    Started(WithMode(DefaultOptions, mode), ClassifierInput(f), DefaultOracle,
            DefaultGraph)

\* output validation and the code the renders produce vary
InitValidate ==
  \E validate \in BOOLEAN, invalidCode \in BOOLEAN,
     sig \in {[m \in Modules |-> 1], [m \in Modules |-> ExecIndex[m]]} :
    Started([DefaultOptions EXCEPT !.validate = validate],
            ClassifierInput(NoClassifier),
            [DefaultOracle EXCEPT !.sig = sig, !.invalidCode = invalidCode],
            DefaultGraph)

Init ==
  \/ InitPipeline
  \/ InitOptions
  \/ InitGraph
  \/ InitTable
  \/ InitClassifier
  \/ InitValidate
  \/ InitDynamicEntry

(***************************************************************************)
(* generate(): the guarded region.                                         *)
(***************************************************************************)
Logged(name, k) == log' = Append(log, <<name, k>>)

\* a failure inside the try block: control goes to the catch clause
Throw(failure) ==
  /\ err' = failure
  /\ pc' = "catch"

\* line 54: await hookParallel('renderStart')
RenderStart ==
  /\ pc = "renderStart"
  /\ Logged("renderStart", 0)
  /\ \E ok \in BOOLEAN :
       IF ok THEN pc' = "generateChunks" /\ err' = err
       ELSE Throw(ExternalFailure("hook:renderStart"))
  /\ UNCHANGED <<inputVars, modulesById, idx, manualVars, chunkVars, renderVars,
                 outcome, warnings>>

(***************************************************************************)
(* generateChunks, first part: the manual chunk aliases.                   *)
(***************************************************************************)
\* moduleLoader.addAdditionalModules: the modules the specifiers resolve to
addAdditionalModules(files) == [j \in 1..Len(files) |-> ResolveId[files[j]]]

\* lines 153-158: the table with every file list resolved, in table order
ChunkEntries(table) ==
  [i \in 1..Len(table) |->
     [alias |-> table[i].alias, entries |-> addAdditionalModules(table[i].files)]]

\* the (alias, entry) pairs in the order the loops of lines 159-163 visit them
EntryPairs(chunkEntries) ==
  FlattenSeq([i \in 1..Len(chunkEntries) |->
                [j \in 1..Len(chunkEntries[i].entries) |->
                   <<chunkEntries[i].alias, chunkEntries[i].entries[j]>>]])

\* the graph after the loader has added the modules it had not seen
LoadedInto(byId, pairs) ==
  byId \o FilterSeq(Dedupe([i \in 1..Len(pairs) |-> pairs[i][2]]),
                    Modules \ Range(byId))

\* addManualChunks, lines 152-158: every file list is resolved
AddManualChunks ==
  /\ pc = "generateChunks"
  /\ manualChunks.type = "object"
  /\ Logged("addAdditionalModules", 0)
  /\ \E ok \in BOOLEAN :
       IF ok
       THEN LET pairs == EntryPairs(ChunkEntries(manualChunks.table)) IN
            /\ manualChunkAliasesWithEntry' = pairs
            /\ modulesById' = LoadedInto(modulesById, pairs)
            /\ pc' = "addModuleToManualChunk"
            /\ err' = err
       ELSE /\ Throw(ExternalFailure("addAdditionalModules"))
            /\ UNCHANGED <<manualChunkAliasesWithEntry, modulesById>>
  /\ UNCHANGED <<inputVars, idx, classifierCalls, manualChunkAliasByEntry, chunkVars,
                 renderVars, outcome, warnings>>

\* assignManualChunks, lines 207-214: one module of the graph; the classifier
\* is the user's function and may throw
GetManualChunk ==
  /\ pc = "generateChunks"
  /\ manualChunks.type = "function"
  /\ idx <= Len(modulesById)
  /\ LET module == modulesById[idx]
         manualChunkAlias == manualChunks.getManualChunk[module]
     IN IF ModInfo[module].internal
        THEN /\ classifierCalls' = Append(classifierCalls, module)
             /\ \E ok \in BOOLEAN :
                  IF ok
                  THEN /\ manualChunkAliasesWithEntry' =
                            IF manualChunkAlias # NoAlias
                            THEN Append(manualChunkAliasesWithEntry,
                                        <<manualChunkAlias, module>>)
                            ELSE manualChunkAliasesWithEntry
                       /\ idx' = idx + 1
                       /\ pc' = pc /\ err' = err
                  ELSE /\ Throw(ExternalFailure("getManualChunk"))
                       /\ UNCHANGED <<manualChunkAliasesWithEntry, idx>>
        ELSE /\ idx' = idx + 1
             /\ UNCHANGED <<classifierCalls, manualChunkAliasesWithEntry, pc, err>>
  /\ UNCHANGED <<inputVars, modulesById, manualChunkAliasByEntry, chunkVars,
                 renderVars, outcome, warnings, log>>

\* a sort that puts a pair before the pairs of the same alias
RECURSIVE InsertBeforeEqual(_, _)
InsertBeforeEqual(pair, s) ==
  IF s = <<>> THEN <<pair>>
  ELSE IF AliasRank[pair[1]] <= AliasRank[Head(s)[1]] THEN <<pair>> \o s
       ELSE <<Head(s)>> \o InsertBeforeEqual(pair, Tail(s))

\* Array.prototype.sort with the comparator of lines 215-217: stable, by alias
RECURSIVE InsertByAlias(_, _)
InsertByAlias(pair, s) ==
  IF s = <<>> THEN <<pair>>
  ELSE IF AliasRank[pair[1]] < AliasRank[Head(s)[1]] THEN <<pair>> \o s
       ELSE <<Head(s)>> \o InsertByAlias(pair, Tail(s))

RECURSIVE SortByAlias(_)
SortByAlias(s) ==
  IF s = <<>> THEN <<>>
  ELSE InsertByAlias(s[Len(s)], SortByAlias(SubSeq(s, 1, Len(s) - 1)))

\* assignManualChunks, lines 215-218: the pairs are sorted
SortManualChunkAliases ==
  /\ pc = "generateChunks"
  /\ manualChunks.type = "function"
  /\ idx > Len(modulesById)
  /\ manualChunkAliasesWithEntry' = SortByAlias(manualChunkAliasesWithEntry)
  /\ pc' = "addModuleToManualChunk"
  /\ UNCHANGED <<inputVars, modulesById, idx, classifierCalls, manualChunkAliasByEntry,
                 chunkVars, renderVars, err, outcome, warnings, log>>

\* lines 159-163 and 219-221: the next pair goes into the map
AddModuleToManualChunk ==
  /\ pc = "addModuleToManualChunk"
  /\ manualChunkAliasesWithEntry # <<>>
  /\ LET pair == Head(manualChunkAliasesWithEntry)
         r == addModuleToManualChunk(pair[1], pair[2], manualChunkAliasByEntry)
     IN /\ manualChunkAliasByEntry' = r.map
        /\ IF r.failure # NoFailure THEN Throw(r.failure)
           ELSE pc' = pc /\ err' = err
  /\ manualChunkAliasesWithEntry' = Tail(manualChunkAliasesWithEntry)
  /\ UNCHANGED <<inputVars, modulesById, idx, classifierCalls, chunkVars, renderVars,
                 outcome, warnings, log>>

(***************************************************************************)
(* generateChunks, second part: the chunks, their links, their facades.    *)
(***************************************************************************)
\* a partition that lets the manual aliases win over preserveModules
ChunkDefinitionsAliasesFirst(options, byId, aliasByEntry, oracle) ==
  IF options.inlineDynamicImports
  THEN <<[alias |-> NoAlias, modules |-> getIncludedModules(byId)]>>
  ELSE IF options.preserveModules /\ aliasByEntry = <<>>
  THEN LET included == getIncludedModules(byId) IN
       [i \in 1..Len(included) |-> [alias |-> NoAlias, modules |-> <<included[i]>>]]
  ELSE getChunkAssignments(byId, aliasByEntry, oracle.sig)

\* lines 257-264: the groups the loop of generateChunks iterates
ChunkDefinitions(options, byId, aliasByEntry, oracle) ==
  IF options.inlineDynamicImports
  THEN <<[alias |-> NoAlias, modules |-> getIncludedModules(byId)]>>
  ELSE IF options.preserveModules
  THEN LET included == getIncludedModules(byId) IN
       [i \in 1..Len(included) |-> [alias |-> NoAlias, modules |-> <<included[i]>>]]
  ELSE getChunkAssignments(byId, aliasByEntry, oracle.sig)

\* lines 255-264: the manual aliases are known, the groups are computed
StartChunks ==
  /\ pc = "addModuleToManualChunk"
  /\ manualChunkAliasesWithEntry = <<>>
  /\ \E ok \in BOOLEAN :
       IF ok
       THEN /\ chunkDefinitions' = ChunkDefinitions(outputOptions, modulesById,
                                      manualChunkAliasByEntry, chunkOracle)
            /\ pc' = "newChunk"
            /\ err' = err
       ELSE /\ Throw(ExternalFailure("getChunkAssignments"))
            /\ UNCHANGED chunkDefinitions
  /\ idx' = 1
  /\ Logged("chunkDefinitions", 0)
  /\ UNCHANGED <<inputVars, modulesById, manualVars, chunks, chunkByModule, facades,
                 renderVars, outcome, warnings>>

\* a loop that leaves the shared map as it is
SetNone(map, modules, k) == map

\* chunkByModule.set(module, chunk) for every module of the chunk
RECURSIVE SetAll(_, _, _)
SetAll(map, modules, k) ==
  IF modules = <<>> THEN map
  ELSE SetAll(MapSet(map, Head(modules), k), Tail(modules), k)

\* lines 265-281: one iteration of the loop that constructs the chunks
ConstructChunk ==
  /\ pc = "newChunk"
  /\ idx <= Len(chunkDefinitions)
  /\ LET modules == sortByExecutionOrder(chunkDefinitions[idx].modules)
         chunk == NewChunk(modules, chunkDefinitions[idx].alias)
     IN /\ chunks' = Append(chunks, chunk)
        /\ chunkByModule' = SetAll(chunkByModule, modules, Len(chunks) + 1)
  /\ Logged("new Chunk", idx)
  /\ idx' = idx + 1
  /\ UNCHANGED <<inputVars, modulesById, pc, manualVars, chunkDefinitions, facades,
                 renderVars, err, outcome, warnings>>

\* the loop has run over every group
ChunksConstructed ==
  /\ pc = "newChunk"
  /\ idx > Len(chunkDefinitions)
  /\ pc' = "link"
  /\ idx' = 1
  /\ UNCHANGED <<inputVars, modulesById, manualVars, chunkVars, renderVars, err,
                 outcome, warnings, log>>

\* lines 283-285: chunk.link() of one chunk
Link ==
  /\ pc = "link"
  /\ idx <= Len(chunks)
  /\ Logged("link", idx)
  /\ \E ok \in BOOLEAN :
       IF ok THEN pc' = pc /\ err' = err ELSE Throw(ExternalFailure("link"))
  /\ idx' = idx + 1
  /\ UNCHANGED <<inputVars, modulesById, manualVars, chunkVars, renderVars, outcome,
                 warnings>>

Linked ==
  /\ pc = "link"
  /\ idx > Len(chunks)
  /\ pc' = "generateFacades"
  /\ idx' = 1
  /\ UNCHANGED <<inputVars, modulesById, manualVars, chunkVars, renderVars, err,
                 outcome, warnings, log>>

\* lines 287-289: facades.push(...chunk.generateFacades()) of one chunk
GenerateFacades ==
  /\ pc = "generateFacades"
  /\ idx <= Len(chunks)
  /\ Logged("generateFacades", idx)
  /\ \E ok \in BOOLEAN :
       IF ok
       THEN /\ chunks' = [chunks EXCEPT ![idx].facadeModule =
                            OwnFacadeModule(chunks[idx], outputOptions, chunkOracle)]
            /\ facades' = facades \o
                            generateFacades(chunks[idx], idx, outputOptions, chunkOracle)
            /\ pc' = pc
            /\ err' = err
       ELSE /\ Throw(ExternalFailure("generateFacades"))
            /\ UNCHANGED <<chunks, facades>>
  /\ idx' = idx + 1
  /\ UNCHANGED <<inputVars, modulesById, manualVars, chunkDefinitions, chunkByModule,
                 renderVars, outcome, warnings>>

\* line 290: return [...chunks, ...facades]
ChunksGenerated ==
  /\ pc = "generateFacades"
  /\ idx > Len(chunks)
  /\ chunks' = chunks \o facades
  /\ pc' = "validateOptions"
  /\ idx' = 1
  /\ UNCHANGED <<inputVars, modulesById, manualVars, chunkDefinitions, chunkByModule,
                 facades, renderVars, err, outcome, warnings, log>>

\* the primary chunks of the chunk list, and its facades
IsFacade(k) == chunks[k].facadeOf # 0
Primaries == {k \in 1..Len(chunks) : ~IsFacade(k)}

(***************************************************************************)
(* generate(), lines 58-70: the option check, the addons, the pre-render.  *)
(***************************************************************************)
\* an option check that counts the primary chunks only
ValidatePrimariesOnly ==
  /\ pc = "validateOptions"
  /\ IF Cardinality(Primaries) > 1
     THEN LET r == validateOptionsForMultiChunkOutput(outputOptions) IN
          /\ Logged("validateOptionsForMultiChunkOutput", 0)
          /\ IF r.failure # NoFailure
             THEN Throw(r.failure) /\ UNCHANGED warnings
             ELSE /\ pc' = "createAddons"
                  /\ err' = err
                  /\ warnings' = IF r.warned
                                 THEN Append(warnings, <<"INVALID_OPTION", NoId>>)
                                 ELSE warnings
     ELSE /\ pc' = "createAddons"
          /\ UNCHANGED <<err, warnings, log>>
  /\ UNCHANGED <<inputVars, modulesById, idx, manualVars, chunkVars, renderVars,
                 outcome>>

\* lines 58-60
ValidateOptions ==
  /\ pc = "validateOptions"
  /\ IF Len(chunks) > 1
     THEN LET r == validateOptionsForMultiChunkOutput(outputOptions) IN
          /\ Logged("validateOptionsForMultiChunkOutput", 0)
          /\ IF r.failure # NoFailure
             THEN Throw(r.failure) /\ UNCHANGED warnings
             ELSE /\ pc' = "createAddons"
                  /\ err' = err
                  /\ warnings' = IF r.warned
                                 THEN Append(warnings, <<"INVALID_OPTION", NoId>>)
                                 ELSE warnings
     ELSE /\ pc' = "createAddons"
          /\ UNCHANGED <<err, warnings, log>>
  /\ UNCHANGED <<inputVars, modulesById, idx, manualVars, chunkVars, renderVars,
                 outcome>>

\* line 68: await createAddons(...)
CreateAddons ==
  /\ pc = "createAddons"
  /\ Logged("createAddons", 0)
  /\ \E ok \in BOOLEAN :
       IF ok THEN pc' = "generateExports" /\ err' = err
       ELSE Throw(ExternalFailure("createAddons"))
  /\ idx' = 1
  /\ UNCHANGED <<inputVars, modulesById, manualVars, chunkVars, renderVars, outcome,
                 warnings>>

\* lines 298-300: chunk.generateExports() of one chunk
GenerateExports ==
  /\ pc = "generateExports"
  /\ idx <= Len(chunks)
  /\ Logged("generateExports", idx)
  /\ \E ok \in BOOLEAN :
       IF ok THEN pc' = pc /\ err' = err ELSE Throw(ExternalFailure("generateExports"))
  /\ idx' = idx + 1
  /\ UNCHANGED <<inputVars, modulesById, manualVars, chunkVars, renderVars, outcome,
                 warnings>>

\* a pre-render that starts as soon as the first chunk has its exports
ExportsGeneratedEarly ==
  /\ pc = "generateExports"
  /\ idx > 1
  /\ pc' = "preRender"
  /\ idx' = 1
  /\ UNCHANGED <<inputVars, modulesById, manualVars, chunkVars, renderVars, err,
                 outcome, warnings, log>>

ExportsGenerated ==
  /\ pc = "generateExports"
  /\ idx > Len(chunks)
  /\ pc' = "preRender"
  /\ idx' = 1
  /\ UNCHANGED <<inputVars, modulesById, manualVars, chunkVars, renderVars, err,
                 outcome, warnings, log>>

\* lines 301-303: chunk.preRender(...) of one chunk
PreRender ==
  /\ pc = "preRender"
  /\ idx <= Len(chunks)
  /\ Logged("preRender", idx)
  /\ \E ok \in BOOLEAN :
       IF ok THEN pc' = pc /\ err' = err ELSE Throw(ExternalFailure("preRender"))
  /\ idx' = idx + 1
  /\ UNCHANGED <<inputVars, modulesById, manualVars, chunkVars, renderVars, outcome,
                 warnings>>

PreRendered ==
  /\ pc = "preRender"
  /\ idx > Len(chunks)
  /\ pc' = "assignChunkIds"
  /\ idx' = 0
  /\ UNCHANGED <<inputVars, modulesById, manualVars, chunkVars, renderVars, err,
                 outcome, warnings, log>>

(***************************************************************************)
(* addFinalizedChunksToBundle and assignChunkIds.                          *)
(***************************************************************************)
IsEntryChunk(chunk) ==
  /\ chunk.facadeModule # NoModule
  /\ ModInfo[chunk.facadeModule].isUserDefinedEntryPoint

\* a naming order that does not put the entry chunks first
ChunksInListOrder(cs) == [k \in 1..Len(cs) |-> k]

\* a naming order that puts the entry chunks last
ChunksOthersFirst(cs) ==
  LET all == [k \in 1..Len(cs) |-> k]
  IN FilterSeq(all, {k \in 1..Len(cs) : ~IsEntryChunk(cs[k])})
     \o FilterSeq(all, {k \in 1..Len(cs) : IsEntryChunk(cs[k])})

\* lines 173-183: entryChunks.concat(otherChunks), as places of the chunk list
ChunksForNaming(cs) ==
  LET all == [k \in 1..Len(cs) |-> k]
      entryChunks == FilterSeq(all, {k \in 1..Len(cs) : IsEntryChunk(cs[k])})
      otherChunks == FilterSeq(all, {k \in 1..Len(cs) : ~IsEntryChunk(cs[k])})
  IN entryChunks \o otherChunks

\* lines 173-183
SortChunksForNaming ==
  /\ pc = "assignChunkIds"
  /\ idx = 0
  /\ chunksForNaming' = ChunksForNaming(chunks)
  /\ idx' = 1
  /\ UNCHANGED <<inputVars, modulesById, pc, manualVars, chunkVars, bundle,
                 renderState, received, renderErrorCalls, err, outcome, warnings, log>>

\* an identity computed against the names of the earlier call as well
ChunkIdAcrossRuns(chunk, options, oracle, existingNames) ==
  IF options.file # Undefined THEN <<basename(options.file), 0>>
  ELSE IF options.preserveModules
       THEN generateIdPreserveModules(chunk, existingNames \cup Range(firstRun.ids))
       ELSE generateId(chunk, oracle, existingNames \cup Range(firstRun.ids))

\* lines 185-196: the identity of one chunk, given the names the bundle holds
ChunkId(chunk, options, oracle, existingNames) ==
  IF options.file # Undefined THEN <<basename(options.file), 0>>
  ELSE IF options.preserveModules THEN generateIdPreserveModules(chunk, existingNames)
  ELSE generateId(chunk, oracle, existingNames)

\* an assignment that does not reserve the identity
NoReservation(b, id) == b

\* line 197: bundle[chunk.id] = FILE_PLACEHOLDER
ReserveId(b, id) == BundleSet(b, id, FILE_PLACEHOLDER)

\* lines 184-198: one iteration of the naming loop
AssignChunkId ==
  /\ pc = "assignChunkIds"
  /\ idx >= 1
  /\ idx <= Len(chunksForNaming)
  /\ LET k == chunksForNaming[idx]
         id == ChunkId(chunks[k], outputOptions, chunkOracle, BundleKeys(bundle))
     IN /\ Logged("chunk.id", k)
        /\ \E ok \in BOOLEAN :
             IF ok
             THEN /\ chunks' = [chunks EXCEPT ![k].id = id]
                  /\ bundle' = ReserveId(bundle, id)
                  /\ pc' = pc
                  /\ err' = err
             ELSE /\ Throw(ExternalFailure("generateId"))
                  /\ UNCHANGED <<chunks, bundle>>
  /\ idx' = idx + 1
  /\ UNCHANGED <<inputVars, modulesById, manualVars, chunkDefinitions, chunkByModule,
                 facades, chunksForNaming, renderState, received, renderErrorCalls,
                 outcome, warnings>>

ChunkIdsAssigned ==
  /\ pc = "assignChunkIds"
  /\ idx > Len(chunksForNaming)
  /\ pc' = "getChunkInfo"
  /\ idx' = 1
  /\ UNCHANGED <<inputVars, modulesById, manualVars, chunkVars, renderVars, err,
                 outcome, warnings, log>>

\* lines 135-137: bundle[chunk.id] = chunk.getChunkInfoWithFileNames()
SetChunkInfo ==
  /\ pc = "getChunkInfo"
  /\ idx <= Len(chunks)
  /\ bundle' = BundleSet(bundle, chunks[idx].id, ChunkInfo(idx))
  /\ Logged("getChunkInfoWithFileNames", idx)
  /\ idx' = idx + 1
  /\ UNCHANGED <<inputVars, modulesById, pc, manualVars, chunkVars, chunksForNaming,
                 renderState, received, renderErrorCalls, err, outcome, warnings>>

\* line 138: the render tasks are about to be created
ChunkInfosSet ==
  /\ pc = "getChunkInfo"
  /\ idx > Len(chunks)
  /\ pc' = "render"
  /\ idx' = 1
  /\ renderState' = [k \in 1..Len(chunks) |-> "idle"]
  /\ UNCHANGED <<inputVars, modulesById, manualVars, chunkVars, chunksForNaming,
                 bundle, received, renderErrorCalls, err, outcome, warnings, log>>

\* lines 139-143, up to the await: chunk.render(...) of one chunk is called
RenderBegin ==
  /\ pc = "render"
  /\ idx <= Len(chunks)
  /\ renderState' = [renderState EXCEPT ![idx] = "pending"]
  /\ Logged("render", idx)
  /\ idx' = idx + 1
  /\ UNCHANGED <<inputVars, modulesById, pc, manualVars, chunkVars, chunksForNaming,
                 bundle, received, renderErrorCalls, err, outcome, warnings>>

\* line 138: Promise.all is awaited
RendersBegun ==
  /\ pc = "render"
  /\ idx > Len(chunks)
  /\ pc' = "awaitRenders"
  /\ UNCHANGED <<inputVars, modulesById, idx, manualVars, chunkVars, renderVars, err,
                 outcome, warnings, log>>

\* renders that may settle as soon as they are begun, as if the renders were
\* awaited one by one
RendersMaySettleEarly == {"render", "awaitRenders", "catch", "renderError", "failed"}

\* renders that are dropped once generate() has left the await
RendersAbortedOnFailure == {"awaitRenders"}

\* the positions of generate() at which a render task may still settle
RendersMaySettle == {"awaitRenders", "catch", "renderError", "failed"}

\* the code the render of chunks[k] yields
RenderedCode(k, oracle) == IF oracle.invalidCode /\ k = 1 THEN "invalid" ELSE "valid"

\* lines 141-144: Object.assign(outputChunk, result) on the entry of the chunk
MergeRender(b, k, id, code) ==
  [i \in 1..Len(b) |->
     IF b[i].fileName = id /\ b[i].chunk = k THEN [b[i] EXCEPT !.code = code] ELSE b[i]]

\* lines 140-144, after the await: the render of one chunk resolves
RenderResolve(k) ==
  /\ pc \in RendersMaySettle
  /\ renderState[k] = "pending"
  /\ renderState' = [renderState EXCEPT ![k] = "resolved"]
  /\ bundle' = MergeRender(bundle, k, chunks[k].id, RenderedCode(k, chunkOracle))
  /\ UNCHANGED <<inputVars, modulesById, pc, idx, manualVars, chunkVars,
                 chunksForNaming, received, renderErrorCalls, err, outcome, warnings,
                 log>>

\* the render of one chunk rejects; the first rejection rejects Promise.all
RenderReject(k) ==
  /\ pc \in RendersMaySettle
  /\ renderState[k] = "pending"
  /\ renderState' = [renderState EXCEPT ![k] = "rejected"]
  /\ IF pc = "awaitRenders" THEN Throw(Failure("render", ToString(k), NoAlias, NoAlias))
     ELSE pc' = pc /\ err' = err
  /\ UNCHANGED <<inputVars, modulesById, idx, manualVars, chunkVars, chunksForNaming,
                 bundle, received, renderErrorCalls, outcome, warnings, log>>

\* line 138: every render has resolved, Promise.all resolves
RendersResolved ==
  /\ pc = "awaitRenders"
  /\ \A k \in 1..Len(chunks) : renderState[k] = "resolved"
  /\ pc' = "generateBundle"
  /\ UNCHANGED <<inputVars, modulesById, idx, manualVars, chunkVars, renderVars, err,
                 outcome, warnings, log>>

(***************************************************************************)
(* generate(): the catch clause, lines 110-113.                            *)
(***************************************************************************)
Failed(failure) == [status |-> "failed", failure |-> failure, bundle |-> <<>>]

\* a catch clause that rethrows without notifying renderError
NotifyRenderErrorSkipped ==
  /\ pc = "catch"
  /\ pc' = "renderError"
  /\ UNCHANGED <<inputVars, modulesById, idx, manualVars, chunkVars, renderVars, err,
                 outcome, warnings, log>>

\* line 111: hookParallel('renderError', [err]) is called
NotifyRenderError ==
  /\ pc = "catch"
  /\ renderErrorCalls' = Append(renderErrorCalls, err)
  /\ Logged("renderError", 0)
  /\ pc' = "renderError"
  /\ UNCHANGED <<inputVars, modulesById, idx, manualVars, chunkVars, chunksForNaming,
                 bundle, renderState, received, err, outcome, warnings>>

\* what the caller gets once the awaited renderError notification has settled:
\* line 112 throws err; a notification that fails rejects the await of line 111
Rethrown(failure, hookOk) ==
  IF hookOk THEN Failed(failure) ELSE Failed(ExternalFailure("hook:renderError"))

\* lines 111-112: the notification settles and generate() fails
RenderErrorSettled ==
  /\ pc = "renderError"
  /\ \E hookOk \in BOOLEAN : outcome' = Rethrown(err, hookOk)
  /\ pc' = "failed"
  /\ UNCHANGED <<inputVars, modulesById, idx, manualVars, chunkVars, renderVars, err,
                 warnings, log>>

(***************************************************************************)
(* generate(), lines 115-124: generateBundle, finaliseAssets, the result.  *)
(***************************************************************************)
\* what the generateBundle callbacks may do to the bundle they are handed
GenerateBundleEffects ==
  {"nothing", "emitAsset", "assignUntyped", "assignUntypedCode", "deleteFirst",
   "replaceFirst"}

HookEffect(b, effect) ==
  CASE effect = "emitAsset" ->
         BundleSet(b, <<"asset", 0>>, [type |-> "asset", chunk |-> 0, code |-> "none"])
    [] effect = "assignUntyped" ->
         BundleSet(b, <<"legacy", 0>>, [type |-> NoType, chunk |-> 0, code |-> "none"])
    [] effect = "assignUntypedCode" ->
         BundleSet(b, <<"legacy", 0>>, [type |-> NoType, chunk |-> 0, code |-> "invalid"])
    [] effect = "deleteFirst" ->
         IF b = <<>> THEN b ELSE BundleDelete(b, b[1].fileName)
    [] effect = "replaceFirst" ->
         IF b = <<>> THEN b
         ELSE BundleSet(b, b[1].fileName, [type |-> NoType, chunk |-> 0, code |-> "none"])
    [] OTHER -> b

\* callbacks that are handed a copy of the bundle
BundleCopyAfterHook(b, effect) == b

\* lines 115-119: the callbacks get outputBundle itself, so what they do to it
\* is done to the bundle of generate()
BundleAfterHook(b, effect) == HookEffect(b, effect)

\* a generateBundle call inside the guard of generate()
GenerateBundleGuarded ==
  /\ pc = "generateBundle"
  /\ \E effect \in GenerateBundleEffects, ok \in BOOLEAN :
       /\ bundle' = BundleAfterHook(bundle, effect)
       /\ log' = Append(log, <<effect, 0>>)
       /\ IF ok THEN pc' = "finaliseAssets" /\ err' = err
          ELSE Throw(ExternalFailure("hook:generateBundle"))
  /\ UNCHANGED <<inputVars, modulesById, idx, manualVars, chunkVars, chunksForNaming,
                 renderState, received, renderErrorCalls, outcome, warnings>>

\* lines 115-119: await hookSeq('generateBundle', ...)
GenerateBundle ==
  /\ pc = "generateBundle"
  /\ \E effect \in GenerateBundleEffects, ok \in BOOLEAN :
       /\ bundle' = BundleAfterHook(bundle, effect)
       /\ log' = Append(log, <<effect, 0>>)
       /\ IF ok THEN pc' = "finaliseAssets" /\ outcome' = outcome
          ELSE pc' = "failed" /\ outcome' = Failed(ExternalFailure("hook:generateBundle"))
  /\ UNCHANGED <<inputVars, modulesById, idx, manualVars, chunkVars, chunksForNaming,
                 renderState, received, renderErrorCalls, err, warnings>>

\* a finaliseAssets that leaves the entries as they are
NotCoerced(file) == file

\* lines 227-234: an entry without a type becomes an asset
Coerced(file) == IF file.type = NoType THEN [file EXCEPT !.type = "asset"] ELSE file

\* a finaliseAssets that parses the code whatever the validate option says
FileWarningsUnconditional(file, options) ==
  (IF file.type = NoType THEN <<<<"DEPRECATED_FEATURE", file.fileName>>>> ELSE <<>>)
  \o (IF file.code = "invalid" THEN <<<<"CHUNK_INVALID", file.fileName>>>> ELSE <<>>)

\* lines 226-245: the warnings of one entry
FileWarnings(file, options) ==
  (IF file.type = NoType THEN <<<<"DEPRECATED_FEATURE", file.fileName>>>> ELSE <<>>)
  \o (IF options.validate /\ file.code = "invalid"
      THEN <<<<"CHUNK_INVALID", file.fileName>>>> ELSE <<>>)

\* lines 226-245: the bundle and the warnings after the loop
finaliseAssets(b, options) ==
  [bundle |-> [i \in 1..Len(b) |-> Coerced(b[i])],
   warnings |-> FlattenSeq([i \in 1..Len(b) |-> FileWarnings(b[i], options)])]

\* line 121: this.finaliseAssets(outputBundle)
FinaliseAssets ==
  /\ pc = "finaliseAssets"
  /\ received' = bundle
  /\ Logged("finaliseAssets", 0)
  /\ LET r == finaliseAssets(bundle, outputOptions) IN
     /\ bundle' = r.bundle
     /\ warnings' = warnings \o r.warnings
  /\ \E ok \in BOOLEAN :
       IF ok THEN pc' = "return" /\ outcome' = outcome
       ELSE pc' = "failed" /\ outcome' = Failed(ExternalFailure("finaliseAssets"))
  /\ UNCHANGED <<inputVars, modulesById, idx, manualVars, chunkVars, chunksForNaming,
                 renderState, renderErrorCalls, err>>

\* line 124: return outputBundleBase
Return ==
  /\ pc = "return"
  /\ outcome' = [status |-> "returned", failure |-> NoFailure, bundle |-> bundle]
  /\ pc' = "done"
  /\ UNCHANGED <<inputVars, modulesById, idx, manualVars, chunkVars, renderVars, err,
                 warnings, log>>

Next ==
  \/ RenderStart
  \/ AddManualChunks
  \/ GetManualChunk
  \/ SortManualChunkAliases
  \/ AddModuleToManualChunk
  \/ StartChunks
  \/ ConstructChunk
  \/ ChunksConstructed
  \/ Link
  \/ Linked
  \/ GenerateFacades
  \/ ChunksGenerated
  \/ ValidateOptions
  \/ CreateAddons
  \/ GenerateExports
  \/ ExportsGenerated
  \/ PreRender
  \/ PreRendered
  \/ SortChunksForNaming
  \/ AssignChunkId
  \/ ChunkIdsAssigned
  \/ SetChunkInfo
  \/ ChunkInfosSet
  \/ RenderBegin
  \/ RendersBegun
  \/ \E k \in 1..Len(renderState) : RenderResolve(k)
  \/ \E k \in 1..Len(renderState) : RenderReject(k)
  \/ RendersResolved
  \/ NotifyRenderError
  \/ RenderErrorSettled
  \/ GenerateBundle
  \/ FinaliseAssets
  \/ Return

Spec == Init /\ [][Next]_vars

(***************************************************************************)
(* A second generate() call on the same graph, options and manual chunks.  *)
(* Each call works on a Bundle of its own (Bundle.ts:37-46), so the second *)
(* call starts from the state the first started from.                      *)
(***************************************************************************)
\* the chunk list without the identities: which modules are in which chunk
Grouping(cs) ==
  [k \in 1..Len(cs) |->
     [modules |-> cs[k].modules, alias |-> cs[k].alias,
      facadeModule |-> cs[k].facadeModule, facadeOf |-> cs[k].facadeOf]]

\* the chunks in the order assignChunkIds has given them their identity
NamingOrder ==
  LET named == FilterSeq(log, {e \in Range(log) : e[1] = "chunk.id"})
  IN [i \in 1..Len(named) |-> named[i][2]]

Identities(cs) == [k \in 1..Len(cs) |-> cs[k].id]

\* the first call has ended after every chunk got its identity; generate()
\* is called again
GenerateAgain ==
  /\ run = 1
  /\ pc \in {"done", "failed"}
  /\ chunks # <<>>
  /\ \A k \in 1..Len(chunks) : chunks[k].id # NoId
  /\ run' = 2
  /\ firstRun' = [grouping |-> Grouping(chunks), naming |-> NamingOrder,
                  ids |-> Identities(chunks)]
  /\ modulesById' = graph
  /\ pc' = "renderStart"
  /\ idx' = 1
  /\ classifierCalls' = <<>>
  /\ manualChunkAliasesWithEntry' = <<>>
  /\ manualChunkAliasByEntry' = <<>>
  /\ chunkDefinitions' = <<>>
  /\ chunks' = <<>>
  /\ chunkByModule' = <<>>
  /\ facades' = <<>>
  /\ chunksForNaming' = <<>>
  /\ bundle' = <<>>
  /\ renderState' = <<>>
  /\ received' = <<>>
  /\ err' = NoFailure
  /\ renderErrorCalls' = <<>>
  /\ outcome' = [status |-> "pending", failure |-> NoFailure, bundle |-> <<>>]
  /\ warnings' = <<>>
  /\ log' = <<>>
  /\ UNCHANGED <<outputOptions, manualChunks, chunkOracle, graph>>

NextTwice ==
  \/ Next
  \/ GenerateAgain

SpecTwice == Init /\ [][NextTwice]_vars

(***************************************************************************)
(* What the log and the state say about a run.                             *)
(***************************************************************************)
Happened(name, k) == <<name, k>> \in Range(log)

\* the places of the log that hold a call of this name
Calls(name) == {i \in 1..Len(log) : log[i][1] = name}

\* the places of the log at which the generateBundle callbacks ran
GenerateBundleCalls == {i \in 1..Len(log) : log[i][1] \in GenerateBundleEffects}

\* every call of the first name on a chunk of the list precedes every call of
\* the second name
AllBefore(first, second) ==
  Calls(second) # {} =>
    /\ \A c \in 1..Len(chunks) : Happened(first, c)
    /\ \A i \in Calls(first), j \in Calls(second) : i < j

Ended == pc \in {"failed", "done"}

EntryOf(b, k) == BundleGet(b, chunks[k].id)

(***************************************************************************)
(* C1.  Static-table manual chunks.                                        *)
(***************************************************************************)
\* the (module, alias, alias) triples of the table: the module is resolved
\* from the file lists of two entries with different aliases
TableConflicts ==
  LET t == manualChunks.table IN
  {<<ResolveId[t[i].files[n]], t[i].alias, t[j].alias>> :
     <<i, n, j>> \in {x \in (1..Len(t)) \X (1..MaxFiles + 1) \X (1..Len(t)) :
        /\ x[2] <= Len(t[x[1]].files)
        /\ t[x[1]].alias # t[x[3]].alias
        /\ \E o \in 1..Len(t[x[3]].files) :
             ResolveId[t[x[3]].files[o]] = ResolveId[t[x[1]].files[x[2]]]}}

\* the file lists of the table have been resolved
TableResolved ==
  /\ manualChunks.type = "object"
  /\ Happened("addAdditionalModules", 0)
  /\ err.kind # "addAdditionalModules"

\* the failure names a module of the table and two different aliases that list it
NamesConflict(failure) ==
  /\ failure.kind = "CANNOT_ASSIGN_MODULE_TO_CHUNK"
  /\ <<failure.id, failure.alias, failure.existingAlias>> \in TableConflicts

\* the alias map holds at most one alias per module
OneAliasPerModule == IsInjective([i \in 1..Len(manualChunkAliasByEntry) |->
                                    manualChunkAliasByEntry[i][1]])

\* C1 as stated: in static-table mode, once the table is resolved, a module
\* listed under two different aliases makes generate() fail with the conflict
\* error naming the module and both aliases; listing a module again under the
\* alias it has raises no error; the alias map never holds two aliases for one
\* module.
C1_ConflictFailsGeneration ==
  /\ OneAliasPerModule
  /\ TableResolved /\ TableConflicts = {} => err.kind # "CANNOT_ASSIGN_MODULE_TO_CHUNK"
  /\ TableResolved /\ TableConflicts # {} /\ Ended =>
       outcome.status = "failed" /\ NamesConflict(outcome.failure)

\* C1, what holds of the code: the conflict error is raised by the resolver for
\* the first pair that finds another alias in the map, renderError is
\* notified with it and generate() fails.
C1_ConflictRaised ==
  /\ OneAliasPerModule
  /\ TableResolved /\ TableConflicts = {} => err.kind # "CANNOT_ASSIGN_MODULE_TO_CHUNK"
  /\ TableResolved /\ TableConflicts # {} /\ pc # "addModuleToManualChunk" =>
       /\ NamesConflict(err)
       /\ outcome.status # "returned"
       /\ Ended => outcome.status = "failed" /\ renderErrorCalls = <<err>>

(***************************************************************************)
(* C2.  A failure inside the guarded region.                               *)
(***************************************************************************)
PipelineFailureKinds ==
  {"addAdditionalModules", "getManualChunk", "CANNOT_ASSIGN_MODULE_TO_CHUNK",
   "getChunkAssignments", "link", "generateFacades", "createAddons", "generateExports", "preRender",
   "generateId", "render"}

\* C2: when chunk generation, addon creation, export generation, pre-render,
\* identity assignment or the render phase fails, renderError is notified
\* exactly once, with that failure, before generate() fails; generateBundle
\* and finaliseAssets are never called and nothing is returned.
C2_FailureNotifiedOnce ==
  err.kind \in PipelineFailureKinds =>
    /\ pc \in {"catch", "renderError", "failed"}
    /\ renderErrorCalls = IF pc = "catch" THEN <<>> ELSE <<err>>
    /\ Cardinality(Calls("renderError")) = Len(renderErrorCalls)
    /\ pc = "failed" <=> outcome.status = "failed"
    /\ outcome.status # "returned"
    /\ GenerateBundleCalls = {}
    /\ Calls("finaliseAssets") = {}
    /\ received = <<>>

C2_Witness ==
  /\ pc = "failed"
  /\ err.kind = "render"
  /\ renderErrorCalls = <<err>>
  /\ \E k \in 1..Len(chunks) : renderState[k] = "resolved"

(***************************************************************************)
(* C3.  The options that allow one chunk only.                             *)
(***************************************************************************)
\* generateChunks has returned the chunk list
ChunksYielded ==
  /\ pc \notin {"renderStart", "generateChunks", "addModuleToManualChunk", "newChunk",
                "link", "generateFacades"}
  /\ err.kind \notin {"hook:renderStart", "addAdditionalModules", "getManualChunk",
                      "CANNOT_ASSIGN_MODULE_TO_CHUNK", "getChunkAssignments", "link",
                      "generateFacades"}

SingleChunkOptions ==
  \/ outputOptions.format \in {"iife", "umd"}
  \/ outputOptions.file # Undefined
  \/ outputOptions.sourcemapFile # Undefined

NoChunkRendered ==
  /\ Calls("generateExports") = {}
  /\ Calls("preRender") = {}
  /\ Calls("chunk.id") = {}
  /\ Calls("render") = {}
  /\ \A k \in 1..Len(chunks) : chunks[k].id = NoId
  /\ bundle = <<>>

\* C3 as stated: with format iife or umd, output.file or output.sourcemapFile
\* and more than one chunk, generate() fails with the invalid-option error
\* before generateExports, preRender, identity assignment or render of any
\* chunk; generateBundle is not called; renderError is notified before the
\* failure reaches the caller.
C3_FailsWithInvalidOption ==
  ChunksYielded /\ Len(chunks) > 1 /\ SingleChunkOptions =>
    /\ NoChunkRendered
    /\ GenerateBundleCalls = {}
    /\ pc # "validateOptions" => err.kind = "INVALID_OPTION"
    /\ outcome.status # "returned"
    /\ Ended => /\ outcome.status = "failed"
                /\ renderErrorCalls = <<err>>
                /\ outcome.failure.kind = "INVALID_OPTION"

\* C3, what holds of the code: the invalid-option error is raised before any
\* chunk is rendered and renderError is notified with it before generate()
\* fails.
C3_InvalidOptionRaised ==
  ChunksYielded /\ Len(chunks) > 1 /\ SingleChunkOptions =>
    /\ NoChunkRendered
    /\ GenerateBundleCalls = {}
    /\ pc # "validateOptions" => err.kind = "INVALID_OPTION"
    /\ outcome.status # "returned"
    /\ Ended => outcome.status = "failed" /\ renderErrorCalls = <<err>>

(***************************************************************************)
(* C4.  The order of identity assignment.                                  *)
(***************************************************************************)
\* C4: an identity of a chunk whose facade module is a user-defined entry
\* point is never assigned after one of another chunk, and within each of the
\* two classes the identities are assigned in chunk-list order.
C4_EntryChunksNamedFirst ==
  \A i, j \in Calls("chunk.id") :
    i < j =>
      LET c == chunks[log[i][2]]
          d == chunks[log[j][2]]
      IN /\ IsEntryChunk(d) => IsEntryChunk(c)
         /\ IsEntryChunk(c) = IsEntryChunk(d) => log[i][2] < log[j][2]

\* an entry chunk late in the list was named before an earlier chunk, and two
\* entry chunks and two other chunks have been named
C4_Witness ==
  /\ \E i, j \in Calls("chunk.id") :
       /\ i < j
       /\ log[i][2] > log[j][2]
       /\ IsEntryChunk(chunks[log[i][2]])
       /\ ~IsEntryChunk(chunks[log[j][2]])
  /\ Cardinality({i \in Calls("chunk.id") : IsEntryChunk(chunks[log[i][2]])}) >= 2
  /\ Cardinality({i \in Calls("chunk.id") : ~IsEntryChunk(chunks[log[i][2]])}) >= 2

(***************************************************************************)
(* C5.  The barriers between the per-chunk phases.                         *)
(***************************************************************************)
\* C5: generateExports of every chunk precedes preRender of any chunk,
\* preRender of every chunk precedes the first identity assignment, and every
\* chunk has its identity before the render of any chunk begins.
C5_PhaseBarriers ==
  /\ AllBefore("generateExports", "preRender")
  /\ AllBefore("preRender", "chunk.id")
  /\ AllBefore("chunk.id", "render")
  /\ Calls("render") # {} => \A c \in 1..Len(chunks) : chunks[c].id # NoId

C5_Witness ==
  /\ Cardinality(Calls("render")) >= 2
  /\ Len(chunks) >= 3

(***************************************************************************)
(* C6.  generateBundle between the renders and finaliseAssets.             *)
(***************************************************************************)
\* the effect the generateBundle callbacks had in this run
EffectLogged(effect) == \E i \in GenerateBundleCalls : log[i][1] = effect

\* the file name the bundle got first: the identity named first
FirstFileName == chunks[chunksForNaming[1]].id

\* what the callbacks did shows in the bundle b
EffectVisible(b, coerced) ==
  /\ EffectLogged("emitAsset") =>
       /\ <<"asset", 0>> \in BundleKeys(b)
       /\ BundleGet(b, <<"asset", 0>>).type = "asset"
  /\ EffectLogged("assignUntyped") \/ EffectLogged("assignUntypedCode") =>
       /\ <<"legacy", 0>> \in BundleKeys(b)
       /\ BundleGet(b, <<"legacy", 0>>).type = IF coerced THEN "asset" ELSE NoType
  /\ EffectLogged("deleteFirst") /\ chunks # <<>> => FirstFileName \notin BundleKeys(b)
  /\ EffectLogged("replaceFirst") /\ chunks # <<>> =>
       /\ FirstFileName \in BundleKeys(b)
       /\ BundleGet(b, FirstFileName).type = IF coerced THEN "asset" ELSE NoType
       /\ BundleGet(b, FirstFileName).chunk = 0

\* C6: in a generation that succeeds generateBundle is called exactly once,
\* after the render of every chunk has resolved and been merged into the
\* entry of its chunk, and before finaliseAssets; what the callbacks did to
\* the bundle is in the bundle finaliseAssets gets and in the bundle returned.
C6_GenerateBundleOnceAfterRenders ==
  /\ Cardinality(GenerateBundleCalls) <= 1
  /\ \A i \in GenerateBundleCalls, j \in Calls("finaliseAssets") : i < j
  /\ pc = "generateBundle" \/ GenerateBundleCalls # {} =>
       \A k \in 1..Len(chunks) : renderState[k] = "resolved"
  /\ pc = "generateBundle" =>
       \A k \in 1..Len(chunks) :
         /\ chunks[k].id \in BundleKeys(bundle)
         /\ EntryOf(bundle, k).chunk = k
         /\ EntryOf(bundle, k).code # "none"
  /\ Calls("finaliseAssets") # {} => GenerateBundleCalls # {}
  /\ pc = "done" =>
       /\ Cardinality(GenerateBundleCalls) = 1
       /\ Cardinality(Calls("finaliseAssets")) = 1
       /\ EffectVisible(received, FALSE)
       /\ EffectVisible(outcome.bundle, TRUE)

C6_Witness ==
  /\ pc = "done"
  /\ Len(chunks) >= 2
  /\ EffectLogged("replaceFirst")

(***************************************************************************)
(* C7.  The identities.                                                    *)
(***************************************************************************)
\* C7: once the render phase is reached every chunk has had its identity
\* assigned exactly once; no two chunks share an identity; an identity is in
\* the bundle, as a placeholder, from its assignment on; and before any
\* render begins the entry of every identity is the artifact of its chunk.
C7_UniqueReservedIdentities ==
  /\ \A k, l \in 1..Len(chunks) :
       k # l /\ chunks[k].id # NoId => chunks[k].id # chunks[l].id
  /\ \A k \in 1..Len(chunks) :
       Cardinality({i \in Calls("chunk.id") : log[i][2] = k}) <= 1
  /\ pc = "assignChunkIds" =>
       \A k \in 1..Len(chunks) :
         chunks[k].id # NoId =>
           /\ chunks[k].id \in BundleKeys(bundle)
           /\ EntryOf(bundle, k) = [fileName |-> chunks[k].id, type |-> "placeholder",
                                    chunk |-> 0, code |-> "none"]
  /\ pc = "render" =>
       \A k \in 1..Len(chunks) :
         /\ Cardinality({i \in Calls("chunk.id") : log[i][2] = k}) = 1
         /\ chunks[k].id # NoId
         /\ chunks[k].id \in BundleKeys(bundle)
         /\ EntryOf(bundle, k).type = "chunk"
         /\ EntryOf(bundle, k).chunk = k

\* two chunks asked for the same name and the renders are about to begin
C7_Witness ==
  /\ pc = "render"
  /\ \E k, l \in 1..Len(chunks) :
       /\ k # l
       /\ chunks[k].id[1] = chunks[l].id[1]
       /\ chunks[l].id[2] > 0

(***************************************************************************)
(* C8.  Preserve-modules mode.                                             *)
(***************************************************************************)
\* the modules of the graph that are internal and included, an entry or the
\* target of an included dynamic import
IncludedInGraph ==
  {m \in Range(modulesById) :
     /\ ModInfo[m].internal
     /\ ModInfo[m].isIncluded \/ ModInfo[m].isEntry
          \/ ModInfo[m].includedDynamicImporters > 0}

\* the loop that constructs the primary chunks has ended
PrimariesBuilt ==
  /\ Calls("chunkDefinitions") # {}
  /\ err.kind # "getChunkAssignments"
  /\ pc # "newChunk"

\* C8: in preserve-modules mode, with inlineDynamicImports off, the primary
\* chunks are one per included module, each holding that module alone, in the
\* order of the graph's id-to-module map, whatever the alias map holds.
C8_PreserveModulesOneChunkPerModule ==
  outputOptions.preserveModules /\ ~outputOptions.inlineDynamicImports
    /\ PrimariesBuilt =>
      /\ \A k \in Primaries : Len(chunks[k].modules) = 1
      /\ \A m \in IncludedInGraph :
           Cardinality({k \in Primaries : m \in Range(chunks[k].modules)}) = 1
      /\ \A k \in Primaries : Range(chunks[k].modules) \subseteq IncludedInGraph
      /\ \A k, l \in Primaries :
           k < l => IndexOf(modulesById, chunks[k].modules[1])
                      < IndexOf(modulesById, chunks[l].modules[1])
      /\ \A k \in Primaries : chunks[k].alias = NoAlias

\* two modules that share a manual alias are in chunks of their own
C8_Witness ==
  /\ outputOptions.preserveModules
  /\ PrimariesBuilt
  /\ Cardinality(Primaries) >= 3
  /\ \E m, n \in IncludedInGraph :
       /\ m # n
       /\ MapGet(manualChunkAliasByEntry, m) # NoAlias
       /\ MapGet(manualChunkAliasByEntry, m) = MapGet(manualChunkAliasByEntry, n)

(***************************************************************************)
(* C9.  When the option conflict is detected.                              *)
(***************************************************************************)
\* C9 as stated: when the invalid-option error of a multi-chunk build is
\* raised, no chunk has been constructed, linked or asked for its facades.
C9_DetectedBeforeChunks ==
  err.kind = "INVALID_OPTION" =>
    /\ chunks = <<>>
    /\ Calls("new Chunk") = {}
    /\ Calls("link") = {}
    /\ Calls("generateFacades") = {}

\* C9 as amended: the conflict is detected right after chunk generation.  When
\* the error is raised every primary chunk has been constructed, linked and
\* asked for its facades and the chunk list has more than one chunk, but no
\* addon has been created and no chunk has had generateExports, preRender, an
\* identity or a render; and no multi-chunk build with such options gets past
\* the check.
C9_DetectedAfterChunksBeforeRender ==
  /\ err.kind = "INVALID_OPTION" =>
       /\ Len(chunks) > 1
       /\ SingleChunkOptions
       /\ \A k \in Primaries :
            /\ Happened("new Chunk", k)
            /\ Happened("link", k)
            /\ Happened("generateFacades", k)
       /\ Calls("createAddons") = {}
       /\ NoChunkRendered
  /\ Calls("createAddons") # {} /\ Len(chunks) > 1 => ~SingleChunkOptions

C9_Witness ==
  /\ err.kind = "INVALID_OPTION"
  /\ err.id = "output.sourcemapFile"
  /\ Cardinality(Primaries) = 1
  /\ Len(chunks) = 2

(***************************************************************************)
(* C10.  The kinds of the returned entries.                                *)
(***************************************************************************)
DeprecationWarnings ==
  {warnings[i][2] : i \in {n \in 1..Len(warnings) : warnings[n][1] = "DEPRECATED_FEATURE"}}

\* C10: every entry of the returned bundle is a chunk or an asset; an entry
\* that came to finaliseAssets without a type is returned as an asset and a
\* deprecation warning was issued for it; an entry with a type is returned as
\* it came.
C10_ReturnedEntriesHaveKind ==
  pc = "done" =>
    /\ outcome.status = "returned"
    /\ Len(outcome.bundle) = Len(received)
    /\ \A i \in 1..Len(outcome.bundle) :
         /\ outcome.bundle[i].type \in {"chunk", "asset"}
         /\ outcome.bundle[i].fileName = received[i].fileName
         /\ received[i].type = NoType =>
              /\ outcome.bundle[i] = [received[i] EXCEPT !.type = "asset"]
              /\ received[i].fileName \in DeprecationWarnings
         /\ received[i].type # NoType =>
              /\ outcome.bundle[i] = received[i]
              /\ received[i].fileName \notin DeprecationWarnings

C10_Witness ==
  /\ pc = "done"
  /\ \E i, j \in 1..Len(received) :
       /\ received[i].type = NoType
       /\ received[j].type = "chunk"

(***************************************************************************)
(* C11.  Output validation.                                                *)
(***************************************************************************)
\* the file names of the entries whose code does not parse, in bundle order
InvalidEntryNames(b) ==
  LET invalid == FilterSeq(b, {f \in Range(b) : f.code = "invalid"})
  IN [i \in 1..Len(invalid) |-> invalid[i].fileName]

\* the file names onwarn was handed an errChunkInvalid warning for, in order
ChunkInvalidWarnings ==
  LET w == FilterSeq(warnings, {x \in Range(warnings) : x[1] = "CHUNK_INVALID"})
  IN [i \in 1..Len(w) |-> w[i][2]]

\* C11: once finaliseAssets has run, with validation on onwarn has received
\* one invalid-chunk warning for each entry whose code does not parse, in
\* bundle order, and with validation off it has received none; renderError is
\* not notified; a syntax failure is never the failure of generate(); the
\* returned bundle holds every entry with the code it came with.
C11_InvalidCodeOnlyWarns ==
  /\ ~Happened("finaliseAssets", 0) => ChunkInvalidWarnings = <<>>
  /\ Happened("finaliseAssets", 0) =>
       /\ ChunkInvalidWarnings =
            IF outputOptions.validate THEN InvalidEntryNames(received) ELSE <<>>
       /\ renderErrorCalls = <<>>
       /\ outcome.failure.kind \in {"none", "finaliseAssets"}
       /\ pc = "done" =>
            /\ outcome.status = "returned"
            /\ Len(outcome.bundle) = Len(received)
            /\ \A i \in 1..Len(received) :
                 /\ outcome.bundle[i].fileName = received[i].fileName
                 /\ outcome.bundle[i].code = received[i].code
                 /\ outcome.bundle[i].chunk = received[i].chunk

\* generate() has returned a bundle with two entries that do not parse and
\* one that does, and validation was on
C11_Witness ==
  /\ pc = "done"
  /\ outcome.status = "returned"
  /\ outputOptions.validate
  /\ Len(InvalidEntryNames(received)) = 2
  /\ ChunkInvalidWarnings = InvalidEntryNames(received)
  /\ \E i \in 1..Len(received) : received[i].code = "valid"

(***************************************************************************)
(* C12.  Two generate() calls on the same inputs.                          *)
(***************************************************************************)
IsPrefix(s, t) == Len(s) <= Len(t) /\ s = SubSeq(t, 1, Len(s))

CallsOf(names) == UNION {Calls(name) : name \in names}

\* preRender has been called and the render of some chunk has not been
RendersNotAllBegun ==
  /\ Calls("preRender") # {}
  /\ \/ renderState = <<>>
     \/ \E k \in 1..Len(renderState) : renderState[k] = "idle"

\* C13: createAddons is called at most once in a generation, after every
\* primary chunk was constructed, linked and asked for its facades, and before
\* generateExports or preRender of any chunk; from the first preRender until
\* render has been called on every chunk no render settles, so no other task
\* runs in between.
C13_AddonsOnceNoSuspension ==
  /\ Cardinality(Calls("createAddons")) <= 1
  /\ \A i \in Calls("createAddons") :
       /\ \A j \in CallsOf({"new Chunk", "link", "generateFacades",
                            "validateOptionsForMultiChunkOutput"}) : j < i
       /\ \A j \in CallsOf({"generateExports", "preRender", "chunk.id",
                            "getChunkInfoWithFileNames", "render"}) : i < j
       /\ \A k \in 1..Len(chunks) :
            ~IsFacade(k) =>
              /\ Happened("new Chunk", k)
              /\ Happened("link", k)
              /\ Happened("generateFacades", k)
  /\ CallsOf({"generateExports", "preRender"}) # {} => Calls("createAddons") # {}
  /\ RendersNotAllBegun =>
       \A k \in 1..Len(renderState) : renderState[k] \in {"idle", "pending"}

\* render has been called on two chunks and not yet on a third, after the
\* addons were created
C13_Witness ==
  /\ pc = "render"
  /\ RendersNotAllBegun
  /\ Calls("createAddons") # {}
  /\ Cardinality({k \in 1..Len(renderState) : renderState[k] = "pending"}) >= 2

(***************************************************************************)
(* C14.  The order of the steps of generateChunks.                         *)
(***************************************************************************)
\* the modules of the first n chunks
ModulesOfFirst(n) == UNION {Range(chunks[k].modules) : k \in 1..n}

\* C14: every primary chunk is constructed before link is called on any
\* chunk, and link is called on every primary chunk before generateFacades is
\* called on any; whenever a chunk is about to be constructed the shared
\* module-to-chunk map holds exactly the modules of the chunks constructed so
\* far, each with a chunk that contains it; the returned list is the primary
\* chunks in partition order followed by the facades, those of an earlier
\* primary chunk before those of a later one.
C14_ConstructLinkFacadeOrder ==
  /\ \A i \in Calls("new Chunk"), j \in CallsOf({"link", "generateFacades"}) : i < j
  /\ \A i \in Calls("link"), j \in Calls("generateFacades") : i < j
  /\ Calls("link") # {} =>
       \A k \in 1..Len(chunkDefinitions) : Happened("new Chunk", k)
  /\ Calls("generateFacades") # {} =>
       \A k \in 1..Len(chunkDefinitions) : Happened("link", k)
  /\ pc = "newChunk" =>
       /\ Len(chunks) = idx - 1
       /\ MapKeys(chunkByModule) = ModulesOfFirst(Len(chunks))
       /\ \A m \in MapKeys(chunkByModule) :
            /\ MapGet(chunkByModule, m) \in 1..Len(chunks)
            /\ m \in Range(chunks[MapGet(chunkByModule, m)].modules)
  /\ ChunksYielded =>
       LET n == Len(chunkDefinitions) IN
       /\ Len(chunks) >= n
       /\ \A k \in 1..Len(chunks) :
            /\ IsFacade(k) <=> k > n
            /\ k <= n =>
                 /\ chunks[k].modules = sortByExecutionOrder(chunkDefinitions[k].modules)
                 /\ chunks[k].alias = chunkDefinitions[k].alias
            /\ k > n => chunks[k].facadeOf \in 1..n
       /\ \A j, k \in 1..Len(chunks) :
            n < j /\ j < k => chunks[j].facadeOf <= chunks[k].facadeOf

\* generateChunks has returned three primary chunks followed by the facades
\* of two of them
C14_Witness ==
  /\ ChunksYielded
  /\ Len(chunkDefinitions) = 3
  /\ Len(chunks) = 5
  /\ chunks[4].facadeOf # chunks[5].facadeOf
  /\ Cardinality(MapKeys(chunkByModule)) = 3

(***************************************************************************)
(* C15.  Primary chunks and facades in the identity assignment.            *)
(***************************************************************************)
\* C15 as stated: every primary chunk gets its identity before any facade
\* chunk gets one.
C15_PrimariesNamedBeforeFacades ==
  \A i, j \in Calls("chunk.id") :
    IsFacade(log[i][2]) /\ ~IsFacade(log[j][2]) => j < i

\* C15, what holds of the code: among the entry chunks, and among the other
\* chunks, every primary chunk gets its identity before any facade; a facade
\* whose facade module is a user-defined entry point gets its identity before
\* every primary chunk that is not an entry chunk, and a facade that is not an
\* entry chunk gets its identity after every primary chunk.
C15_PrimariesBeforeFacadesWithinClass ==
  \A i, j \in Calls("chunk.id") :
    LET f == log[i][2]
        p == log[j][2]
    IN IsFacade(f) /\ ~IsFacade(p) =>
         /\ IsEntryChunk(chunks[f]) = IsEntryChunk(chunks[p]) => j < i
         /\ IsEntryChunk(chunks[f]) /\ ~IsEntryChunk(chunks[p]) => i < j
         /\ ~IsEntryChunk(chunks[f]) => j < i

\* a facade of a user-defined entry point was named before a primary chunk
\* that is not an entry chunk and after a primary chunk that is one
C15_Witness ==
  \E i, j, l \in Calls("chunk.id") :
    /\ IsFacade(log[i][2]) /\ IsEntryChunk(chunks[log[i][2]])
    /\ ~IsFacade(log[j][2]) /\ ~IsEntryChunk(chunks[log[j][2]])
    /\ ~IsFacade(log[l][2]) /\ IsEntryChunk(chunks[log[l][2]])
    /\ l < i
    /\ i < j

(***************************************************************************)
(* C16.  The failure the caller receives.                                  *)
(***************************************************************************)
\* C16 as stated: when generate() fails because of a failure caught by its
\* guard, the caller receives that failure, whatever the renderError
\* callbacks do.
C16_OriginalFailureDelivered ==
  outcome.status = "failed" /\ err # NoFailure => outcome.failure = err

\* C16, what holds of the code: the caller receives the caught failure
\* unless the renderError notification itself fails, and then it receives the
\* failure of the notification.
C16_OriginalFailureUnlessCallbackFails ==
  outcome.status = "failed" /\ err # NoFailure =>
    /\ renderErrorCalls = <<err>>
    /\ outcome.failure \in {err, ExternalFailure("hook:renderError")}

(***************************************************************************)
(* C17.  A render that fails while others are pending.                     *)
(***************************************************************************)
RenderFailed == err.kind = "render"

Pending == {k \in 1..Len(renderState) : renderState[k] = "pending"}

\* after a render failure: generate() is in its catch clause or has failed,
\* renderError is notified with the failure, nothing waits for the pending
\* renders, and each of them can still resolve
FailsAtFirstRenderFailure ==
  RenderFailed =>
    /\ pc \in {"catch", "renderError", "failed"}
    /\ renderErrorCalls = IF pc = "catch" THEN <<>> ELSE <<err>>
    /\ pc = "catch" => ENABLED NotifyRenderError
    /\ pc = "renderError" => ENABLED RenderErrorSettled
    /\ \A k \in Pending : ENABLED RenderResolve(k)
    /\ GenerateBundleCalls = {}
    /\ Calls("finaliseAssets") = {}
    /\ outcome.status # "returned"

\* a step after a render failure: a render that resolves changes the code of
\* the entry of its chunk and nothing else of the bundle, and the outcome the
\* caller has seen stays as it is
LateRenderStep ==
  RenderFailed =>
    /\ \A k \in Pending :
         renderState'[k] = "resolved" =>
           /\ Len(bundle') = Len(bundle)
           /\ \A i \in 1..Len(bundle) :
                IF bundle[i].chunk = k /\ bundle[i].fileName = chunks[k].id
                THEN bundle'[i] = [bundle[i] EXCEPT !.code = RenderedCode(k, chunkOracle)]
                ELSE bundle'[i] = bundle[i]
    /\ outcome.status = "failed" => outcome' = outcome
    /\ pc = "failed" => pc' = "failed"

\* C17: when a render fails while others are pending, renderError is notified
\* and generate() fails without waiting for them; the pending renders can
\* still resolve and merge their code into the entry of their chunk; such a
\* render never leads to generateBundle or finaliseAssets and never changes
\* what the caller received.
C17_RenderFailureWithPendingRenders ==
  /\ []FailsAtFirstRenderFailure
  /\ [][LateRenderStep]_vars

\* generate() has failed with a render failure, one render is still pending,
\* and another has resolved and its code is in the bundle
C17_Witness ==
  /\ pc = "failed"
  /\ RenderFailed
  /\ outcome.failure = err
  /\ Pending # {}
  /\ \E k \in 1..Len(renderState) :
       /\ renderState[k] = "resolved"
       /\ EntryOf(bundle, k).code = RenderedCode(k, chunkOracle)

(***************************************************************************)
(* C18.  The manual-chunk classifier.                                      *)
(***************************************************************************)
\* the internal modules of the graph, in its iteration order
InternalModules == FilterSeq(modulesById, {m \in Modules : ModInfo[m].internal})

\* the loop over the graph has ended without a failure of the classifier
Classified ==
  /\ pc \notin {"renderStart", "generateChunks"}
  /\ err.kind \notin {"hook:renderStart", "getManualChunk"}

\* every pair has been put into the alias map
AliasMapBuilt ==
  /\ Classified
  /\ pc # "addModuleToManualChunk"

\* C18: in classifier mode the classifier is called at most once per module,
\* on the internal modules in graph order, and on every one of them once the
\* loop has ended; the conflict error is never raised and no module has two
\* aliases; the finished map holds exactly the modules the classifier gave a
\* string, each with that string, in ascending alias order and, among equal
\* aliases, in graph order.
C18_ClassifierAliasMap ==
  manualChunks.type = "function" =>
    /\ IsInjective(classifierCalls)
    /\ IsPrefix(classifierCalls, InternalModules)
    /\ Classified => classifierCalls = InternalModules
    /\ err.kind # "CANNOT_ASSIGN_MODULE_TO_CHUNK"
    /\ OneAliasPerModule
    /\ AliasMapBuilt =>
         LET map == manualChunkAliasByEntry IN
         /\ MapKeys(map) = {m \in Range(InternalModules) :
                              manualChunks.getManualChunk[m] # NoAlias}
         /\ \A i \in 1..Len(map) : map[i][2] = manualChunks.getManualChunk[map[i][1]]
         /\ \A i, j \in 1..Len(map) :
              i < j =>
                /\ AliasRank[map[i][2]] <= AliasRank[map[j][2]]
                /\ map[i][2] = map[j][2] =>
                     IndexOf(modulesById, map[i][1]) < IndexOf(modulesById, map[j][1])

\* the classifier gave three modules an alias, two of them the same, and the
\* map does not hold them in graph order
C18_Witness ==
  /\ manualChunks.type = "function"
  /\ AliasMapBuilt
  /\ Len(manualChunkAliasByEntry) = 3
  /\ manualChunkAliasByEntry[1][2] = manualChunkAliasByEntry[2][2]
  /\ manualChunkAliasByEntry[2][2] # manualChunkAliasByEntry[3][2]
  /\ IndexOf(modulesById, manualChunkAliasByEntry[3][1])
       < IndexOf(modulesById, manualChunkAliasByEntry[1][1])

(***************************************************************************)
(* C19.  Which chunk lists the option check applies to.                    *)
(***************************************************************************)
\* generate() has got past lines 58-60
OptionCheckPassed == ChunksYielded /\ pc # "validateOptions"

\* C19: validateOptionsForMultiChunkOutput is called, once, exactly when the
\* list generateChunks returned, facades included, has more than one chunk; a
\* generation whose list has one chunk never raises the invalid-option error,
\* whatever the format, output.file and output.sourcemapFile; a generation
\* with one primary chunk and a facade and one of these options raises it and
\* fails.
C19_CheckCountsFacades ==
  /\ Cardinality(Calls("validateOptionsForMultiChunkOutput")) <= 1
  /\ Calls("validateOptionsForMultiChunkOutput") # {}
       <=> (OptionCheckPassed /\ Len(chunks) > 1)
  /\ err.kind = "INVALID_OPTION" => Len(chunks) > 1
  /\ OptionCheckPassed /\ Cardinality(Primaries) = 1 /\ Len(chunks) > 1
       /\ SingleChunkOptions =>
         /\ err.kind = "INVALID_OPTION"
         /\ outcome.status # "returned"
         /\ Ended => outcome.status = "failed"

\* a generation with output.file and one primary chunk has failed because the
\* chunk has a facade
C19_Witness ==
  /\ pc = "failed"
  /\ err.kind = "INVALID_OPTION"
  /\ err.id = "output.file"
  /\ Cardinality(Primaries) = 1
  /\ Len(chunks) = 2

(***************************************************************************)
(* C20.  When renderError is notified.                                     *)
(***************************************************************************)
\* the failures raised inside the try block of generate()
GuardedFailureKinds == PipelineFailureKinds \cup {"hook:renderStart", "INVALID_OPTION"}

\* the failures raised after it
UnguardedFailureKinds == {"hook:generateBundle", "finaliseAssets"}

\* the failure that made generate() fail: the one its guard caught, or else
\* the one that reached the caller
FirstFailure == IF err # NoFailure THEN err ELSE outcome.failure

\* C20: renderError is notified at most once, only with a failure raised
\* inside the try block, and never once generateBundle has been called; when
\* generate() has failed, renderError was notified if and only if the failure
\* arose inside the try block: a failure of the renderStart notification is
\* notified, a failure of a generateBundle callback or of finaliseAssets is
\* not.
C20_RenderErrorIffGuarded ==
  /\ Len(renderErrorCalls) <= 1
  /\ Cardinality(Calls("renderError")) = Len(renderErrorCalls)
  /\ renderErrorCalls # <<>> =>
       /\ renderErrorCalls = <<err>>
       /\ err.kind \in GuardedFailureKinds
       /\ GenerateBundleCalls = {}
       /\ Calls("finaliseAssets") = {}
  /\ GenerateBundleCalls # {} => err = NoFailure
  /\ outcome.status = "failed" =>
       /\ FirstFailure.kind \in GuardedFailureKinds \cup UnguardedFailureKinds
       /\ FirstFailure.kind \in GuardedFailureKinds <=> renderErrorCalls = <<FirstFailure>>
       /\ FirstFailure.kind \in UnguardedFailureKinds <=> renderErrorCalls = <<>>
       /\ FirstFailure.kind = "hook:generateBundle" => GenerateBundleCalls # {}
       /\ FirstFailure.kind = "finaliseAssets" => Calls("finaliseAssets") # {}

\* generate() has failed in finaliseAssets, after the generateBundle
\* callbacks ran, and renderError was not notified
C20_Witness ==
  /\ pc = "failed"
  /\ outcome.failure.kind = "finaliseAssets"
  /\ GenerateBundleCalls # {}
  /\ renderErrorCalls = <<>>
  /\ Calls("renderStart") # {}

=============================================================================
